---- MODULE Spec2Model ----
(***************************************************************************)
(* Model of package iso8601 (dacut/go-iso8601): the six anchored regular   *)
(* expressions of iso8601Variants, ParseISO8601Timestamp, and the          *)
(* Time wrapper's UnmarshalJSON / UnmarshalText.                           *)
(*                                                                         *)
(* A Go string is a sequence of one-character strings; Go index k of a     *)
(* string or slice is index k+1 of the sequence.                           *)
(***************************************************************************)
EXTENDS Integers, Sequences, FiniteSets, TLC

VARIABLES
    tv,     \* the fields and layout the caller builds the next input from
    s,      \* the argument of the last/pending ParseISO8601Timestamp call
    ret,    \* what that call returned (status "none" before the call)
    op,     \* the last operation that completed
    t,      \* the iso8601.Time value that UnmarshalJSON/UnmarshalText write
    data,   \* the bytes handed to the last unmarshal call
    uerr    \* what the last unmarshal call returned

vars == <<tv, s, ret, op, t, data, uerr>>

----------------------------------------------------------------------------
(* Characters and decimal text                                             *)

DigitChars == <<"0", "1", "2", "3", "4", "5", "6", "7", "8", "9">>

Digits == {DigitChars[i] : i \in 1..10}

DigitVal(c) == (CHOOSE i \in 1..10 : DigitChars[i] = c) - 1

Range(a, b) == {DigitChars[i + 1] : i \in a..b}

RECURSIVE Repeat(_, _)
Repeat(c, n) == IF n <= 0 THEN <<>> ELSE <<c>> \o Repeat(c, n - 1)

RECURSIVE Itoa(_)
\* decimal text of n >= 0 with no padding (fmt %d)
Itoa(n) == IF n < 10 THEN <<DigitChars[n + 1]>>
           ELSE Itoa(n \div 10) \o <<DigitChars[(n % 10) + 1]>>

\* fmt %0wd of n >= 0: zero-padded on the left to at least w characters
Pad(n, w) == Repeat("0", w - Len(Itoa(n))) \o Itoa(n)

----------------------------------------------------------------------------
(* Regular expressions: the syntax tree of a pattern, and the set of ways  *)
(* it matches a prefix of the text from a position.                        *)

Chr(set)    == [k |-> "chr", set |-> set]
Lit(c)      == Chr({c})
Cat(rs)     == [k |-> "cat", rs |-> rs]
Alt(rs)     == [k |-> "alt", rs |-> rs]
Eps         == [k |-> "eps"]
Opt(r)      == Alt(<<r, Eps>>)
\* capture group number n, counted by opening parenthesis as regexp does
Grp(n, r)   == [k |-> "grp", n |-> n, r |-> r]

RECURSIVE Rep(_, _, _)
\* r{lo,hi}
Rep(r, lo, hi) ==
    IF lo > 0 THEN Cat(<<r, Rep(r, lo - 1, hi - 1)>>)
    ELSE IF hi > 0 THEN Opt(Cat(<<r, Rep(r, 0, hi - 1)>>))
    ELSE Eps

RECURSIVE NumSubexp(_)
RECURSIVE NumSubexpSeq(_, _)
NumSubexp(r) ==
    CASE r.k = "grp" -> 1 + NumSubexp(r.r)
      [] r.k = "cat" -> NumSubexpSeq(r.rs, 1)
      [] r.k = "alt" -> NumSubexpSeq(r.rs, 1)
      [] OTHER       -> 0
NumSubexpSeq(rs, i) ==
    IF i > Len(rs) THEN 0 ELSE NumSubexp(rs[i]) + NumSubexpSeq(rs, i + 1)

\* A thread of the matcher: the next position to read and the captures
\* (caps[1] is the whole match, caps[n + 1] is group n).
RECURSIVE Run(_, _, _)
RECURSIVE RunCat(_, _, _, _)
Run(r, str, th) ==
    CASE r.k = "chr" ->
            IF th.pos <= Len(str) /\ str[th.pos] \in r.set
            THEN {[th EXCEPT !.pos = @ + 1]}
            ELSE {}
      [] r.k = "eps" -> {th}
      [] r.k = "cat" -> RunCat(r.rs, 1, str, {th})
      [] r.k = "alt" ->
            UNION {Run(r.rs[i], str, th) : i \in 1..Len(r.rs)}
      [] r.k = "grp" ->
            {[e EXCEPT !.caps[r.n + 1] = SubSeq(str, th.pos, e.pos - 1)] :
                e \in Run(r.r, str, th)}
RunCat(rs, i, str, ths) ==
    IF i > Len(rs) \/ ths = {} THEN ths
    ELSE RunCat(rs, i + 1, str, UNION {Run(rs[i], str, th) : th \in ths})

\* Every pattern is anchored: ^ ... $ (without the m flag, $ is the end of
\* the text).  The threads that consumed the whole text.
Matches(re, str) ==
    {th \in Run(re, str, [pos  |-> 1,
                          caps |-> [i \in 1..(NumSubexp(re) + 1) |-> <<>>]]) :
        th.pos = Len(str) + 1}

\* regexp.MatchString
MatchString(re, str) == Matches(re, str) # {}

\* regexp.FindStringSubmatch: the whole match, then each group's text ("" for
\* a group that took no part).
FindStringSubmatch(re, str) ==
    LET th == CHOOSE m \in Matches(re, str) : TRUE
    IN  [th.caps EXCEPT ![1] = str]

----------------------------------------------------------------------------
(* iso8601Variants: the six patterns compiled by init()                    *)

Digit == Chr(Digits)

\* a fifth year digit let through: ([0-9]{4,5})
YearRe_UpToFive == Grp(1, Rep(Digit, 4, 5))

\* ([0-9]{4})
YearRe == Grp(1, Rep(Digit, 4, 4))

\* (0[1-9]|1[0-2])
MonthRe == Grp(2, Alt(<<Cat(<<Lit("0"), Chr(Range(1, 9))>>),
                        Cat(<<Lit("1"), Chr(Range(0, 2))>>)>>))

\* (0[1-9]|[12][0-9]|3[01])
DayRe == Grp(3, Alt(<<Cat(<<Lit("0"), Chr(Range(1, 9))>>),
                      Cat(<<Chr(Range(1, 2)), Digit>>),
                      Cat(<<Lit("3"), Chr(Range(0, 1))>>)>>))

\* only the upper-case separator
DateTimeSepRe_UpperOnly == Chr({"T"})

\* [Tt ]
DateTimeSepRe == Chr({"T", "t", " "})

\* ([01][0-9]|2[0-3])
HourRe == Grp(4, Alt(<<Cat(<<Chr(Range(0, 1)), Digit>>),
                       Cat(<<Lit("2"), Chr(Range(0, 3))>>)>>))

\* ([0-5][0-9])
MinuteRe == Grp(5, Cat(<<Chr(Range(0, 5)), Digit>>))

\* no leap seconds: ([0-5][0-9])
SecondRe_NoLeap == Grp(6, Cat(<<Chr(Range(0, 5)), Digit>>))

\* ([0-5][0-9]|6[01])
SecondRe == Grp(6, Alt(<<Cat(<<Chr(Range(0, 5)), Digit>>),
                         Cat(<<Lit("6"), Chr(Range(0, 1))>>)>>))

\* (?:[.,]([0-9]{1,9}))?
FracRe == Opt(Cat(<<Chr({".", ","}), Grp(7, Rep(Digit, 1, 9))>>))

\* (Z|[-+][01][0-9]:?(?:[0-5][0-9])?)
OffsetRe == Grp(8, Alt(<<Lit("Z"),
                         Cat(<<Chr({"-", "+"}), Chr(Range(0, 1)), Digit,
                               Opt(Lit(":")),
                               Opt(Cat(<<Chr(Range(0, 5)), Digit>>))>>)>>))

\* the naive pattern: each hyphen optional on its own
DateHyphenRe_OptionalHyphens ==
    Cat(<<YearRe, Opt(Lit("-")), MonthRe, Opt(Lit("-")), DayRe>>)

\* ([0-9]{4})-(0[1-9]|1[0-2])-(0[1-9]|[12][0-9]|3[01])
DateHyphenRe == Cat(<<YearRe, Lit("-"), MonthRe, Lit("-"), DayRe>>)

\* ([0-9]{4})(0[1-9]|1[0-2])(0[1-9]|[12][0-9]|3[01])
DateCompactRe == Cat(<<YearRe, MonthRe, DayRe>>)

\* the naive pattern: each colon optional on its own
TimeColonRe_OptionalColons ==
    Cat(<<HourRe, Opt(Lit(":")), MinuteRe, Opt(Lit(":")), SecondRe>>)

\* ([01][0-9]|2[0-3]):([0-5][0-9]):([0-5][0-9]|6[01])
TimeColonRe == Cat(<<HourRe, Lit(":"), MinuteRe, Lit(":"), SecondRe>>)

\* ([01][0-9]|2[0-3])([0-5][0-9])([0-5][0-9]|6[01])
TimeCompactRe == Cat(<<HourRe, MinuteRe, SecondRe>>)

Variant0 == Cat(<<DateHyphenRe, DateTimeSepRe, TimeColonRe, FracRe, OffsetRe>>)
Variant1 == Cat(<<DateCompactRe, DateTimeSepRe, TimeCompactRe, FracRe, OffsetRe>>)
Variant2 == Cat(<<DateHyphenRe, DateTimeSepRe, TimeCompactRe, FracRe, OffsetRe>>)
Variant3 == Cat(<<DateCompactRe, DateTimeSepRe, TimeColonRe, FracRe, OffsetRe>>)
Variant4 == DateHyphenRe
\* the hyphenated date-only pattern entered twice
Variant5_CopyOfVariant4 == DateHyphenRe

Variant5 == DateCompactRe

\* iso8601Variants[i] of the source is iso8601Variants[i + 1] here
iso8601Variants ==
    <<Variant0, Variant1, Variant2, Variant3, Variant4, Variant5>>

----------------------------------------------------------------------------
(* Package time, as far as the parser and its tests use it.  An instant is *)
(* a day number and a second of that day, both in UTC, so that every       *)
(* intermediate value stays within 32 bits.                                *)

\* The year the day count starts from.  Like package time's own zero year it
\* is 1 mod 400, which is what daysSinceEpoch and absDate rely on.
AbsoluteZeroYear == -399

SecondsPerDay == 24 * 60 * 60
DaysPer400Years == 365 * 400 + 97
DaysPer100Years == 365 * 100 + 24
DaysPer4Years == 365 * 4 + 1

\* daysBefore[m] of package time is daysBefore[m + 1] here
daysBefore == <<0, 31, 59, 90, 120, 151, 181, 212, 243, 273, 304, 334, 365>>

isLeap(year) == year % 4 = 0 /\ (year % 100 # 0 \/ year % 400 = 0)

\* norm(hi, lo, base): lo brought into 0..base-1, the carry added to hi
norm(hi, lo, base) == <<hi + (lo \div base), lo % base>>

daysSinceEpoch(year) ==
    LET y0 == year - AbsoluteZeroYear
        n4 == y0 \div 400
        y1 == y0 - 400 * n4
        n1 == y1 \div 100
        y2 == y1 - 100 * n1
        n0 == y2 \div 4
        y3 == y2 - 4 * n0
    IN  DaysPer400Years * n4 + DaysPer100Years * n1 + DaysPer4Years * n0
        + 365 * y3

UTCLoc == [name |-> <<"U", "T", "C">>, offset |-> 0]

\* the offset applied with the wrong sign
FixedZone_Negated(name, offset) == [name |-> name, offset |-> 0 - offset]

\* time.FixedZone
FixedZone(name, offset) == [name |-> name, offset |-> offset]

\* time.Date: the fields are normalised (month into the year, nanoseconds
\* into seconds, seconds into minutes, minutes into hours, hours into days;
\* a day past the end of the month runs on into the next), then the zone's
\* offset is taken off to give the instant.
Date(year, month, day, hour, min, sec, nsec, loc) ==
    LET ym  == norm(year, month - 1, 12)
        y   == ym[1]
        mo  == ym[2] + 1
        sn  == norm(sec, nsec, 1000000000)
        ms  == norm(min, sn[1], 60)
        hm  == norm(hour, ms[1], 60)
        dh  == norm(day, hm[1], 24)
        d   == daysSinceEpoch(y) + daysBefore[mo]
               + (IF isLeap(y) /\ mo >= 3 THEN 1 ELSE 0) + dh[1] - 1
        abs == norm(d, dh[2] * 3600 + hm[2] * 60 + ms[2] - loc.offset,
                    SecondsPerDay)
    IN  [day |-> abs[1], sec |-> abs[2], nsec |-> sn[2], loc |-> loc]

\* time.Time{}: January 1, year 1, 00:00:00 UTC
ZeroTime == [day |-> daysSinceEpoch(1), sec |-> 0, nsec |-> 0, loc |-> UTCLoc]

\* Time.abs: the instant shifted into the time's own zone
abs(tm) == norm(tm.day, tm.sec + tm.loc.offset, SecondsPerDay)

\* absDate: year, month, day of a day number
absDate(days) ==
    LET n4   == days \div DaysPer400Years
        d1   == days - DaysPer400Years * n4
        c1   == d1 \div DaysPer100Years
        n1   == c1 - (c1 \div 4)
        d2   == d1 - DaysPer100Years * n1
        n0   == d2 \div DaysPer4Years
        d3   == d2 - DaysPer4Years * n0
        c0   == d3 \div 365
        n    == c0 - (c0 \div 4)
        yday == d3 - 365 * n
        year == 400 * n4 + 100 * n1 + 4 * n0 + n + AbsoluteZeroYear
        leap == isLeap(year)
        dd   == IF leap /\ yday > 31 + 29 - 1 THEN yday - 1 ELSE yday
        m0   == dd \div 31
        end  == daysBefore[m0 + 2]
    IN  IF leap /\ yday = 31 + 29 - 1
        THEN [year |-> year, month |-> 2, day |-> 29]
        ELSE IF dd >= end
        THEN [year |-> year, month |-> m0 + 2, day |-> dd - end + 1]
        ELSE [year |-> year, month |-> m0 + 1,
              day |-> dd - daysBefore[m0 + 1] + 1]

Year(tm)       == absDate(abs(tm)[1]).year
Month(tm)      == absDate(abs(tm)[1]).month
Day(tm)        == absDate(abs(tm)[1]).day
Hour(tm)       == abs(tm)[2] \div 3600
Minute(tm)     == (abs(tm)[2] % 3600) \div 60
Second(tm)     == abs(tm)[2] % 60
Nanosecond(tm) == tm.nsec

\* Time.UTC: the same instant, read in UTC
UTC(tm) == [tm EXCEPT !.loc = UTCLoc]

----------------------------------------------------------------------------
(* strconv and fmt                                                         *)

RECURSIVE DecimalValue(_)
DecimalValue(str) ==
    IF str = <<>> THEN 0
    ELSE 10 * DecimalValue(SubSeq(str, 1, Len(str) - 1))
         + DigitVal(str[Len(str)])

\* strconv.Atoi: an optional sign and at least one digit, or an error
Atoi(str) ==
    LET signed == str # <<>> /\ str[1] \in {"+", "-"}
        body   == IF signed THEN Tail(str) ELSE str
        ok     == body # <<>> /\ \A i \in 1..Len(body) : body[i] \in Digits
    IN  [ok |-> ok,
         v  |-> IF ~ok THEN 0
                ELSE IF signed /\ str[1] = "-" THEN 0 - DecimalValue(body)
                ELSE DecimalValue(body)]

\* strconv.Quote, which is what the verb %#v prints a string with
RECURSIVE Escape(_)
Escape(str) ==
    IF str = <<>> THEN <<>>
    ELSE (CASE str[1] = "\"" -> <<"\\", "\"">>
            [] str[1] = "\\" -> <<"\\", "\\">>
            [] str[1] = "\n" -> <<"\\", "n">>
            [] OTHER         -> <<str[1]>>) \o Escape(Tail(str))

Quote(str) == <<"\"">> \o Escape(str) \o <<"\"">>

\* str[lo:hi]; ok is FALSE where Go panics (slice bounds out of range)
GoSlice(str, lo, hi) ==
    LET ok == 0 <= lo /\ lo <= hi /\ hi <= Len(str)
    IN  [ok |-> ok, v |-> IF ok THEN SubSeq(str, lo + 1, hi) ELSE <<>>]

\* str[i]; ok is FALSE where Go panics (index out of range)
GoIndex(str, i) ==
    [ok |-> i < Len(str), v |-> IF i < Len(str) THEN str[i + 1] ELSE ""]

----------------------------------------------------------------------------
(* ParseISO8601Timestamp                                                   *)

\* atoip: the integer, or a panic (ok = FALSE) when strconv.Atoi fails
atoip(str) == Atoi(str)

\* atoip applied to a slice expression that may itself panic
atoipSlice(sl) == IF sl.ok THEN atoip(sl.v) ELSE [ok |-> FALSE, v |-> 0]

NilError == [type |-> "nil", text |-> "", value |-> <<>>]

\* stacktrace.NewError("Invalid ISO 8601 timestamp: %#v", s).  The copy of the
\* function printed in README.md builds &time.ParseError{Value: s, ...} here
\* and is otherwise the same.
NotISO8601Error(str) ==
    [type  |-> "stacktrace",
     text  |-> "Invalid ISO 8601 timestamp: ",
     value |-> Quote(str)]

NoResult == [status |-> "none", ts |-> ZeroTime, err |-> NilError]
Panic    == [status |-> "panic", ts |-> ZeroTime, err |-> NilError]

\* the digits taken as they stand, without padding
PadNanos_Unpadded(fracSecStr) == fracSecStr

RECURSIVE PadNanos(_)
\* for len(fracSecStr) < 9 { fracSecStr = fracSecStr + "0" }
PadNanos(fracSecStr) ==
    IF Len(fracSecStr) < 9 THEN PadNanos(fracSecStr \o <<"0">>)
    ELSE fracSecStr

\* The zone of an offset text: time.UTC for "Z", else a fixed zone from the
\* sign, tzStr[1:3] and either tzStr[4:6] (after a colon) or tzStr[3:5].
ResolveLocation(tzStr) ==
    IF tzStr = <<"Z">> THEN [ok |-> TRUE, v |-> UTCLoc]
    ELSE
        LET signStr == GoIndex(tzStr, 0)
            sign    == IF signStr.v = "-" THEN -1 ELSE 1
            tzHour  == atoipSlice(GoSlice(tzStr, 1, 3))
            third   == GoIndex(tzStr, 3)
            tzMin   == IF ~third.ok THEN [ok |-> FALSE, v |-> 0]
                       ELSE IF third.v = ":"
                       THEN atoipSlice(GoSlice(tzStr, 4, 6))
                       ELSE atoipSlice(GoSlice(tzStr, 3, 5))
        IN  IF signStr.ok /\ tzHour.ok /\ tzMin.ok
            THEN [ok |-> TRUE,
                  v  |-> FixedZone(
                            <<signStr.v>> \o Pad(tzHour.v, 2) \o <<":">>
                                \o Pad(tzMin.v, 2),
                            sign * (tzHour.v * 3600 + tzMin.v * 60))]
            ELSE [ok |-> FALSE, v |-> UTCLoc]

\* The body of the loop once a pattern has matched: parts is what
\* FindStringSubmatch returned (parts[k] of the source is parts[k + 1] here).
Convert(parts) ==
    LET hasTime    == Len(parts) > 4
        year       == atoip(parts[2])
        month      == atoip(parts[3])
        day        == atoip(parts[4])
        hour       == IF hasTime THEN atoip(parts[5]) ELSE [ok |-> TRUE, v |-> 0]
        minute     == IF hasTime THEN atoip(parts[6]) ELSE [ok |-> TRUE, v |-> 0]
        second     == IF hasTime THEN atoip(parts[7]) ELSE [ok |-> TRUE, v |-> 0]
        fracSecStr == IF hasTime THEN parts[8] ELSE <<>>
        nanosecs   == IF fracSecStr # <<>> THEN atoip(PadNanos(fracSecStr))
                      ELSE [ok |-> TRUE, v |-> 0]
        tzStr      == IF hasTime THEN parts[9] ELSE <<"Z">>
        loc        == ResolveLocation(tzStr)
    IN  IF year.ok /\ month.ok /\ day.ok /\ hour.ok /\ minute.ok /\ second.ok
           /\ nanosecs.ok /\ loc.ok
        THEN [status |-> "ok",
              ts     |-> Date(year.v, month.v, day.v, hour.v, minute.v,
                              second.v, nanosecs.v, loc.v),
              err    |-> NilError]
        ELSE Panic

\* The patterns that match str, by index
Matching(str) ==
    {i \in 1..Len(iso8601Variants) : MatchString(iso8601Variants[i], str)}

RECURSIVE ParseFrom(_, _)
\* for _, re := range iso8601Variants, from index i on: the first pattern
\* that matches decides; with none, the zero time and the error.
ParseFrom(i, str) ==
    IF i > Len(iso8601Variants)
    THEN [status |-> "error", ts |-> ZeroTime, err |-> NotISO8601Error(str)]
    ELSE IF MatchString(iso8601Variants[i], str)
    THEN Convert(FindStringSubmatch(iso8601Variants[i], str))
    ELSE ParseFrom(i + 1, str)

ParseISO8601Timestamp(str) == ParseFrom(1, str)

----------------------------------------------------------------------------
(* The callers' inputs.  A test vector names the fields and the layout a   *)
(* timestamp text is written from, as the tests' literals are; del > 0     *)
(* drops one character of the text, and kind "raw" is a text given as is.  *)

\* the longest fractional part a vector is written with
MaxFracDigits == 10

DeleteAt(str, i) ==
    IF i \in 1..Len(str)
    THEN SubSeq(str, 1, i - 1) \o SubSeq(str, i + 1, Len(str))
    ELSE str

RenderDate(v) ==
    IF v.dateLayout = "hyphen"
    THEN Pad(v.year, 4) \o <<"-">> \o Pad(v.month, 2) \o <<"-">> \o Pad(v.day, 2)
    ELSE Pad(v.year, 4) \o Pad(v.month, 2) \o Pad(v.day, 2)

RenderTime(v) ==
    IF v.timeLayout = "colon"
    THEN Pad(v.hour, 2) \o <<":">> \o Pad(v.minute, 2) \o <<":">>
         \o Pad(v.second, 2)
    ELSE Pad(v.hour, 2) \o Pad(v.minute, 2) \o Pad(v.second, 2)

RenderFrac(v) == IF v.fracMark = "" THEN <<>> ELSE <<v.fracMark>> \o v.frac

RenderOffset(v) ==
    IF v.offSign = "Z" THEN <<"Z">>
    ELSE <<v.offSign>> \o Pad(v.offHour, 2) \o
         (CASE v.offForm = "colon"     -> <<":">> \o Pad(v.offMin, 2)
            [] v.offForm = "compact"   -> Pad(v.offMin, 2)
            [] v.offForm = "hour"      -> <<>>
            [] v.offForm = "hourcolon" -> <<":">>)

Render(v) ==
    CASE v.kind = "raw"  -> v.raw
      [] v.kind = "date" -> RenderDate(v)
      [] v.kind = "ts"   -> RenderDate(v) \o <<v.sep>> \o RenderTime(v)
                            \o RenderFrac(v) \o RenderOffset(v)

Build(v) == DeleteAt(Render(v), v.del)

\* "1900-12-31T00:10:20Z", the tests' first literal
BaseVector ==
    [kind |-> "ts", year |-> 1900, month |-> 12, day |-> 31,
     dateLayout |-> "hyphen", sep |-> "T", timeLayout |-> "colon",
     hour |-> 0, minute |-> 10, second |-> 20,
     fracMark |-> "", frac |-> <<>>,
     offSign |-> "Z", offHour |-> 0, offMin |-> 0, offForm |-> "colon",
     del |-> 0, raw |-> <<>>]

WithDate(v, d) == [v EXCEPT !.year = d[1], !.month = d[2], !.day = d[3]]
WithTime(v, c) == [v EXCEPT !.hour = c[1], !.minute = c[2], !.second = c[3]]
WithLayout(v, dl, sp, tl) ==
    [v EXCEPT !.dateLayout = dl, !.sep = sp, !.timeLayout = tl]

DateLayouts == {"hyphen", "compact"}
TimeLayouts == {"colon", "compact"}
Separators  == {"T", "t", " "}

\* dates in and out of the patterns' ranges, and days their month lacks
SampleDates ==
    {<<1900, 12, 31>>, <<2020, 2, 17>>, <<2020, 2, 29>>, <<2021, 2, 29>>,
     <<2021, 2, 30>>, <<2021, 4, 31>>, <<0, 1, 1>>, <<1, 1, 1>>,
     <<9999, 12, 31>>, <<2020, 13, 1>>, <<2020, 0, 10>>, <<2020, 1, 0>>,
     <<2020, 1, 32>>}

SampleTimes ==
    {<<0, 10, 20>>, <<11, 39, 27>>, <<23, 59, 59>>, <<0, 0, 0>>,
     <<24, 0, 0>>, <<12, 60, 0>>, <<0, 10, 60>>, <<0, 10, 61>>,
     <<0, 10, 62>>, <<0, 10, 99>>, <<23, 59, 60>>, <<23, 59, 61>>}

\* "658731658731...", cut to n digits
FracCycle(n) ==
    [i \in 1..n |-> <<"6", "5", "8", "7", "3", "1">>[((i - 1) % 6) + 1]]

SampleFracs ==
    {Repeat(c, n) : c \in {"0", "6", "9"}, n \in 1..MaxFracDigits}
    \cup {FracCycle(n) : n \in 1..MaxFracDigits}

LayoutVectors ==
    {WithLayout(WithTime(WithDate(BaseVector, d), c), dl, sp, tl) :
        d \in SampleDates, c \in SampleTimes,
        dl \in DateLayouts, sp \in Separators, tl \in TimeLayouts}

DateOnlyVectors ==
    {[WithDate(BaseVector, d) EXCEPT !.kind = "date", !.dateLayout = dl] :
        d \in SampleDates, dl \in DateLayouts}

\* "2020-02-17T11:39:27...", the tests' fractional-second and zone literals
Base2020 == WithTime(WithDate(BaseVector, <<2020, 2, 17>>), <<11, 39, 27>>)

FracVectors ==
    {[WithLayout(Base2020, dl, "T", tl) EXCEPT
            !.fracMark = fm, !.frac = f, !.offSign = os] :
        dl \in DateLayouts, tl \in TimeLayouts, fm \in {".", ","},
        f \in SampleFracs, os \in {"Z", "+"}}

OffsetForms ==
    {[form |-> f, min |-> m] : f \in {"colon", "compact"}, m \in {0, 30, 59, 60}}
    \cup {[form |-> f, min |-> 0] : f \in {"hour", "hourcolon"}}

OffsetVectors ==
    {[WithLayout(WithTime(Base2020, c), dl, "T", tl) EXCEPT
            !.fracMark = fm[1], !.frac = fm[2],
            !.offSign = os, !.offHour = oh,
            !.offMin = of.min, !.offForm = of.form] :
        c \in {<<11, 39, 27>>, <<23, 59, 60>>, <<0, 0, 0>>},
        dl \in DateLayouts, tl \in TimeLayouts,
        fm \in {<<"", <<>> >>, <<".", FracCycle(6)>>},
        os \in {"+", "-"}, oh \in {0, 2, 19, 20}, of \in OffsetForms}

WholeVectors ==
    LayoutVectors \cup DateOnlyVectors \cup FracVectors \cup OffsetVectors

\* The positions in a rendered vector of the two hyphens of a hyphenated
\* date segment and of the two colons of a colon-separated time segment.
DateHyphens(v) == IF v.dateLayout = "hyphen" THEN {5, 8} ELSE {}

TimeColons(v) ==
    IF v.kind = "ts" /\ v.timeLayout = "colon"
    THEN LET t0 == Len(RenderDate(v)) + 1 IN {t0 + 3, t0 + 6}
    ELSE {}

\* one separator of the date or of the time segment dropped
SeparatorDropVectors ==
    UNION {{[v EXCEPT !.del = i] : i \in DateHyphens(v) \cup TimeColons(v)} :
              v \in WholeVectors}

\* any one character dropped from a few well-formed texts
AnyDropVectors ==
    UNION {{[v EXCEPT !.del = i] : i \in 1..Len(Render(v))} :
              v \in {w \in WholeVectors :
                        /\ <<w.year, w.month, w.day>> = <<2020, 2, 17>>
                        /\ <<w.hour, w.minute, w.second>> = <<11, 39, 27>>
                        /\ w.frac \in {<<>>, FracCycle(6)}
                        /\ w.offSign \in {"Z", "-"}
                        /\ w.offHour \in {0, 2} /\ w.offMin \in {0, 30}
                        /\ w.offForm \in {"colon", "compact"}}}

Quoted(q1, str, q2) == <<q1>> \o str \o <<q2>>

RawTexts ==
    {<<>>, <<"n", "u", "l", "l">>, <<"1">>, <<"Z">>, <<"\"">>, <<"\"", "\"">>,
     Quoted("\"", Render(BaseVector), "\""),
     Quoted("'", Render(BaseVector), "'"),
     Quoted(" ", Render(BaseVector), " "),
     Render(BaseVector) \o <<"\n">>,
     Render(BaseVector) \o <<"Z">>,
     SubSeq(Render(BaseVector), 1, 19),
     SubSeq(Render(BaseVector), 1, 11),
     SubSeq(Render(BaseVector), 1, 19) \o <<"z">>,
     SubSeq(Render(BaseVector), 1, 10) \o <<"Z">>,
     SubSeq(Render(BaseVector), 1, 10) \o <<"T">> \o Render(BaseVector),
     SubSeq(Render(BaseVector), 1, 10) \o <<"T", "T">>
        \o SubSeq(Render(BaseVector), 12, 20),
     SubSeq(Render(BaseVector), 1, 19) \o <<".", "Z">>,
     SubSeq(Render(BaseVector), 1, 19) \o <<"\\", "Z">>,
     <<"1">> \o SubSeq(Render(Base2020), 1, 10),
     <<"1">> \o Render(Base2020),
     <<"-">> \o Render(Base2020),
     SubSeq(Render(Base2020), 2, 10)}

RawVectors == {[BaseVector EXCEPT !.kind = "raw", !.raw = r] : r \in RawTexts}

TestVectors ==
    WholeVectors \cup SeparatorDropVectors \cup AnyDropVectors \cup RawVectors

----------------------------------------------------------------------------
(* A direct call of ParseISO8601Timestamp on one input                     *)

Init ==
    /\ tv \in TestVectors
    /\ s = Build(tv)
    /\ ret = NoResult
    /\ op = "none"
    /\ t = ZeroTime
    /\ data = <<>>
    /\ uerr = NilError

Call ==
    /\ op = "none"
    /\ ret' = ParseISO8601Timestamp(s)
    /\ op' = "ParseISO8601Timestamp"
    /\ UNCHANGED <<tv, s, t, data, uerr>>

Next == Call

Spec == Init /\ [][Next]_vars

----------------------------------------------------------------------------
(* The Time wrapper: one Time value t, unmarshalled into again and again   *)

\* &time.ParseError{Layout: "ISO 8601", Value: s,
\*                  Message: ": timestamp must be a JSON string literal"}
NotStringLiteralError(str) ==
    [type  |-> "time.ParseError",
     text  |-> ": timestamp must be a JSON string literal",
     value |-> str]

\* a panic that reaches the caller of an unmarshal method
PanicError == [type |-> "panic", text |-> "", value |-> <<>>]

\* the null check left out
IsNull_Never(bytes) == FALSE

\* string(data) == "null"
IsNull(bytes) == bytes = <<"n", "u", "l", "l">>

\* any quote at either end, matching or not
NotQuoted_MixedQuotes(str) ==
    \/ Len(str) < 2
    \/ ~(str[1] \in {"\"", "'"} /\ str[Len(str)] \in {"\"", "'"})

\* len(s) < 2 || (!(s[0] == '"' && s[len(s)-1] == '"') &&
\*                !(s[0] == '\'' && s[len(s)-1] == '\''))
NotQuoted(str) ==
    \/ Len(str) < 2
    \/ /\ ~(str[1] = "\"" /\ str[Len(str)] = "\"")
       /\ ~(str[1] = "'" /\ str[Len(str)] = "'")

\* the target assigned only when the parse succeeded
AssignParsed_KeepsOnError(text, opName, bytes) ==
    /\ s' = text
    /\ ret' = ParseISO8601Timestamp(text)
    /\ t' = IF ret'.status = "ok" THEN ret'.ts ELSE t
    /\ uerr' = IF ret'.status = "panic" THEN PanicError ELSE ret'.err
    /\ op' = opName
    /\ data' = bytes
    /\ UNCHANGED tv

\* What t.Time, err = ParseISO8601Timestamp(text) leaves behind.  A panic
\* inside the call unwinds before the assignment: t keeps its value.
AssignParsed(text, opName, bytes) ==
    /\ s' = text
    /\ ret' = ParseISO8601Timestamp(text)
    /\ t' = IF ret'.status = "panic" THEN t ELSE ret'.ts
    /\ uerr' = IF ret'.status = "panic" THEN PanicError ELSE ret'.err
    /\ op' = opName
    /\ data' = bytes
    /\ UNCHANGED tv

UnmarshalJSON(bytes) ==
    IF IsNull(bytes) \/ NotQuoted(bytes)
    THEN /\ uerr' = IF IsNull(bytes) THEN NilError
                    ELSE NotStringLiteralError(bytes)
         /\ op' = "UnmarshalJSON"
         /\ data' = bytes
         /\ s' = <<>>
         /\ ret' = NoResult
         /\ UNCHANGED <<t, tv>>
    ELSE AssignParsed(SubSeq(bytes, 2, Len(bytes) - 1), "UnmarshalJSON", bytes)

UnmarshalText(bytes) == AssignParsed(bytes, "UnmarshalText", bytes)

\* the texts the wrapper is handed: bare and quoted
WrapperVectors ==
    {BaseVector,
     [BaseVector EXCEPT !.kind = "date", !.dateLayout = "compact"],
     WithLayout(BaseVector, "compact", " ", "compact"),
     WithTime(BaseVector, <<0, 10, 61>>),
     WithDate(BaseVector, <<1, 1, 1>>),
     [BaseVector EXCEPT !.del = 8],
     [Base2020 EXCEPT !.fracMark = ".", !.frac = FracCycle(6)],
     [Base2020 EXCEPT !.fracMark = ".", !.frac = FracCycle(MaxFracDigits)],
     [Base2020 EXCEPT !.fracMark = ".", !.frac = FracCycle(6),
                      !.offSign = "-", !.offHour = 2, !.offMin = 30],
     [Base2020 EXCEPT !.offSign = "+", !.offHour = 2, !.offForm = "hour"]}

WrapperData ==
    {<<>>, <<"n", "u", "l", "l">>, <<"1">>, <<"\"">>, <<"\"", "\"">>,
     Quoted("\"", <<"n", "u", "l", "l">>, "\"")}
    \cup {Build(v) : v \in WrapperVectors}
    \cup {Quoted("\"", Build(v), "\"") : v \in WrapperVectors}
    \cup {Quoted("'", Build(v), "'") : v \in {BaseVector, Base2020}}
    \cup {Quoted("\"", Build(v), "'") : v \in {BaseVector}}
    \cup {Quoted("'", Build(v), "\"") : v \in {BaseVector}}

InitTime ==
    /\ tv = BaseVector
    /\ s = <<>>
    /\ ret = NoResult
    /\ op = "none"
    /\ t = ZeroTime
    /\ data = <<>>
    /\ uerr = NilError

NextTime ==
    \/ \E bytes \in WrapperData : UnmarshalJSON(bytes)
    \/ \E bytes \in WrapperData : UnmarshalText(bytes)

SpecTime == InitTime /\ [][NextTime]_vars

----------------------------------------------------------------------------
(* Properties of a direct call                                             *)

Done == op = "ParseISO8601Timestamp"

\* the patterns admit the fields of v: four-digit year, month 01-12,
\* day 01-31, hour 00-23, minute 00-59
InRange(v) ==
    /\ v.year \in 0..9999 /\ v.month \in 1..12 /\ v.day \in 1..31
    /\ v.hour \in 0..23 /\ v.minute \in 0..59

DaysIn(year, month) ==
    IF month = 2 THEN (IF isLeap(year) THEN 29 ELSE 28)
    ELSE IF month \in {4, 6, 9, 11} THEN 30 ELSE 31

\* the day exists in its month
OnCalendar(v) == v.day <= DaysIn(v.year, v.month)

Fields(tm) ==
    <<Year(tm), Month(tm), Day(tm), Hour(tm), Minute(tm), Second(tm)>>

Spellings(v) ==
    {WithLayout(v, dl, sp, tl) :
        dl \in DateLayouts, sp \in Separators, tl \in TimeLayouts}

\* C1: dropping exactly one hyphen of a hyphenated date segment, or exactly
\* one colon of a colon-separated time segment, from an accepted text gives
\* a text that no pattern matches and that ParseISO8601Timestamp rejects.
C1_SeparatorConsistency ==
    (/\ Done
     /\ tv.kind # "raw"
     /\ tv.del \in DateHyphens(tv) \cup TimeColons(tv)
     /\ ParseISO8601Timestamp(Render(tv)).status = "ok")
    => (Matching(s) = {} /\ ret.status = "error")

\* "1900-1231T00:10:20Z" was rejected
C1_Witness ==
    /\ Done
    /\ tv = [BaseVector EXCEPT !.del = 8]
    /\ ParseISO8601Timestamp(Render(tv)).status = "ok"
    /\ ret.status = "error"

\* C2, as stated: every spelling of in-range fields with offset Z is
\* accepted and reads back as exactly those fields, the same timestamp for
\* all twelve spellings.
C2_AsStated ==
    (/\ Done
     /\ tv.kind = "ts" /\ tv.del = 0
     /\ InRange(tv) /\ tv.second \in 0..59
     /\ tv.fracMark = "" /\ tv.offSign = "Z")
    => /\ ret.status = "ok"
       /\ Fields(ret.ts) = <<tv.year, tv.month, tv.day,
                             tv.hour, tv.minute, tv.second>>
       /\ \A w \in Spellings(tv) : ParseISO8601Timestamp(Render(w)) = ret

\* C2, amended: every spelling of in-range fields with offset Z is accepted,
\* all twelve spellings give the same timestamp, its hour, minute and second
\* are those written, and its year, month and day are those written
\* whenever the day exists in that month of that year.
C2_RoundTrip ==
    (/\ Done
     /\ tv.kind = "ts" /\ tv.del = 0
     /\ InRange(tv) /\ tv.second \in 0..59
     /\ tv.fracMark = "" /\ tv.offSign = "Z")
    => /\ ret.status = "ok"
       /\ <<Hour(ret.ts), Minute(ret.ts), Second(ret.ts)>>
            = <<tv.hour, tv.minute, tv.second>>
       /\ OnCalendar(tv) =>
            <<Year(ret.ts), Month(ret.ts), Day(ret.ts)>>
                = <<tv.year, tv.month, tv.day>>
       /\ \A w \in Spellings(tv) : ParseISO8601Timestamp(Render(w)) = ret

\* "19001231 001020Z" read back as 1900-12-31 00:10:20
C2_Witness ==
    /\ Done
    /\ tv = WithLayout(BaseVector, "compact", " ", "compact")
    /\ ret.status = "ok"
    /\ Fields(ret.ts) = <<1900, 12, 31, 0, 10, 20>>

\* C3: an offset of a sign and two hour digits, in a text the patterns
\* admit, parses with the given hour and minute 0.
C3_HourOnlyOffset ==
    (/\ Done
     /\ tv.kind = "ts" /\ tv.del = 0
     /\ tv.offSign \in {"+", "-"} /\ tv.offForm = "hour"
     /\ Matching(s) # {})
    => /\ ret.status = "ok"
       /\ ret.ts.loc.offset =
            (IF tv.offSign = "-" THEN -1 ELSE 1) * tv.offHour * 3600

\* C4: an accepted offset of sign, hour and minute is a fixed offset of
\* sign x (hh x 3600 + mm x 60) seconds; the instant is the written fields
\* less that offset; the colon and compact spellings agree; Z is offset 0.
C4_OffsetApplication ==
    (/\ Done
     /\ tv.kind = "ts" /\ tv.del = 0
     /\ ret.status = "ok")
    => /\ tv.offSign = "Z" => ret.ts.loc.offset = 0
       /\ (tv.offSign \in {"+", "-"} /\ tv.offForm \in {"colon", "compact"}) =>
            LET off == (IF tv.offSign = "-" THEN -1 ELSE 1)
                       * (tv.offHour * 3600 + tv.offMin * 60)
                alt == IF tv.offForm = "colon" THEN "compact" ELSE "colon"
            IN  /\ ret.ts.loc.offset = off
                /\ <<ret.ts.day, ret.ts.sec>> =
                     norm(Date(tv.year, tv.month, tv.day, 0, 0, 0, 0, UTCLoc).day,
                          tv.hour * 3600 + tv.minute * 60 + tv.second - off,
                          SecondsPerDay)
                /\ ParseISO8601Timestamp(
                        Render([tv EXCEPT !.offForm = alt])) = ret

\* "2020-02-17T11:39:27.658731-02:30" is 14:09:27.658731 UTC
C4_Witness ==
    /\ Done
    /\ tv = [Base2020 EXCEPT !.fracMark = ".", !.frac = FracCycle(6),
                !.offSign = "-", !.offHour = 2, !.offMin = 30]
    /\ ret.status = "ok"
    /\ ret.ts.loc.offset = -9000
    /\ Fields(UTC(ret.ts)) = <<2020, 2, 17, 14, 9, 27>>
    /\ Nanosecond(UTC(ret.ts)) = 658731000

RECURSIVE Pow10(_)
Pow10(n) == IF n = 0 THEN 1 ELSE 10 * Pow10(n - 1)

\* C5: d fractional digits (1 <= d <= 9) after '.' or ',' give their value
\* times 10^(9-d) nanoseconds; no fractional part gives 0; ten or more
\* digits are rejected.
C5_FractionPadding ==
    (Done /\ tv.kind # "raw" /\ tv.del = 0)
    => /\ (ret.status = "ok" /\ tv.kind = "ts" /\ tv.fracMark # "") =>
            /\ Len(tv.frac) \in 1..9
            /\ Nanosecond(ret.ts)
                 = DecimalValue(tv.frac) * Pow10(9 - Len(tv.frac))
       /\ (ret.status = "ok" /\ (tv.kind = "date" \/ tv.fracMark = "")) =>
            Nanosecond(ret.ts) = 0
       /\ (tv.kind = "ts" /\ tv.fracMark # "" /\ Len(tv.frac) >= 10) =>
            ret.status = "error"

\* "2020-02-17T11:39:27,6Z" has 600000000 nanoseconds
C5_Witness ==
    /\ Done
    /\ tv = [Base2020 EXCEPT !.fracMark = ",", !.frac = <<"6">>]
    /\ ret.status = "ok"
    /\ Nanosecond(ret.ts) = 600000000

\* the error's text holds str, character for character
Carries(e, str) ==
    \E i \in 1..(Len(e.value) - Len(str) + 1) :
        SubSeq(e.value, i, i + Len(str) - 1) = str

\* C6: an input no pattern matches gets the zero timestamp and a non-nil
\* error that carries the input verbatim with a not-ISO-8601 message; an
\* input some pattern matches gets a nil error.
C6_FailureResult ==
    Done =>
        /\ Matching(s) = {} =>
            /\ ret.status = "error"
            /\ ret.err # NilError
            /\ ret.err.text = "Invalid ISO 8601 timestamp: "
            /\ Carries(ret.err, s)
            /\ ret.ts = ZeroTime
        /\ Matching(s) # {} =>
            /\ ret.status = "ok"
            /\ ret.err = NilError

\* v with its seconds field set to 00 is accepted
ValidButForSeconds(v) ==
    ParseISO8601Timestamp(Render([v EXCEPT !.second = 0])).status = "ok"

\* C7: in each date-time layout an otherwise valid text with seconds 60 or
\* 61 is accepted and denotes the instant that many seconds after hh:mm:00
\* in its offset; "1900-12-31T00:10:60Z" and "...:61Z" read back as minute
\* 10 second 60/61 or minute 11 second 0/1 of the same hour and day; seconds
\* of 62 or more are rejected.
C7_LeapSecond ==
    (Done /\ tv.kind = "ts" /\ tv.del = 0)
    => /\ (tv.second \in {60, 61} /\ ValidButForSeconds(tv)) =>
            LET b == ParseISO8601Timestamp(Render([tv EXCEPT !.second = 0])).ts
            IN  /\ ret.status = "ok"
                /\ <<ret.ts.day, ret.ts.sec>>
                     = norm(b.day, b.sec + tv.second, SecondsPerDay)
                /\ ret.ts.nsec = b.nsec /\ ret.ts.loc = b.loc
                /\ (<<tv.year, tv.month, tv.day, tv.hour, tv.minute>>
                        = <<1900, 12, 31, 0, 10>> /\ tv.offSign = "Z") =>
                     /\ <<Year(ret.ts), Month(ret.ts), Day(ret.ts), Hour(ret.ts)>>
                          = <<1900, 12, 31, 0>>
                     /\ \/ <<Minute(ret.ts), Second(ret.ts)>> = <<10, tv.second>>
                        \/ <<Minute(ret.ts), Second(ret.ts)>>
                             = <<11, tv.second - 60>>
       /\ tv.second >= 62 => ret.status = "error"

\* "19001231t001061Z" was accepted and reads 00:11:01
C7_Witness ==
    /\ Done
    /\ tv = WithLayout(WithTime(BaseVector, <<0, 10, 61>>), "compact", "t", "compact")
    /\ ret.status = "ok"
    /\ Fields(ret.ts) = <<1900, 12, 31, 0, 11, 1>>

\* C8, as stated: a date-only text with in-range month and day is accepted
\* as midnight UTC of the year, month and day written.
C8_AsStated ==
    (/\ Done
     /\ tv.kind = "date" /\ tv.del = 0
     /\ InRange(tv))
    => /\ ret.status = "ok"
       /\ Fields(ret.ts) = <<tv.year, tv.month, tv.day, 0, 0, 0>>
       /\ Nanosecond(ret.ts) = 0
       /\ ret.ts.loc = UTCLoc

\* C8, amended: a date-only text with in-range month and day is accepted
\* with hour, minute, second and nanosecond 0 and offset UTC; its year, month
\* and day are those written whenever the day exists in that month of that
\* year.
C8_DateOnly ==
    (/\ Done
     /\ tv.kind = "date" /\ tv.del = 0
     /\ InRange(tv))
    => /\ ret.status = "ok"
       /\ <<Hour(ret.ts), Minute(ret.ts), Second(ret.ts), Nanosecond(ret.ts)>>
            = <<0, 0, 0, 0>>
       /\ ret.ts.loc = UTCLoc
       /\ OnCalendar(tv) =>
            <<Year(ret.ts), Month(ret.ts), Day(ret.ts)>>
                = <<tv.year, tv.month, tv.day>>

\* "19001231" is 1900-12-31 00:00:00 UTC
C8_Witness ==
    /\ Done
    /\ tv = [BaseVector EXCEPT !.kind = "date", !.dateLayout = "compact"]
    /\ ret.status = "ok"
    /\ Fields(ret.ts) = <<1900, 12, 31, 0, 0, 0>>
    /\ ret.ts.loc.offset = 0

\* C9: at most one of the six patterns matches any input, so whichever
\* matching pattern is taken gives the result returned.
C9_MutuallyExclusive ==
    Done =>
        /\ Cardinality(Matching(s)) <= 1
        /\ \A i \in Matching(s) :
              Convert(FindStringSubmatch(iso8601Variants[i], s)) = ret

\* "1900-12-31 001020Z" is matched by the third pattern and by no other
C9_Witness ==
    /\ Done
    /\ tv = WithLayout(BaseVector, "hyphen", " ", "compact")
    /\ Matching(s) = {3}
    /\ ret.status = "ok"

----------------------------------------------------------------------------
(* Properties of the wrapper                                               *)

\* C10: UnmarshalJSON of exactly null returns no error and leaves the Time
\* value as it was, whatever it held.
C10_NullLeavesTarget ==
    [][(op' = "UnmarshalJSON" /\ data' = <<"n", "u", "l", "l">>)
            => (t' = t /\ uerr' = NilError /\ ret'.status = "none")]_vars

\* null arrived when the value held an earlier successful result
C10_Witness ==
    /\ op = "UnmarshalJSON"
    /\ data = <<"n", "u", "l", "l">>
    /\ uerr = NilError
    /\ t # ZeroTime
    /\ Year(t) = 2020

\* enclosed in a matching pair of double or of single quotes
ProperlyQuoted(bytes) ==
    /\ Len(bytes) >= 2
    /\ \E q \in {"\"", "'"} : bytes[1] = q /\ bytes[Len(bytes)] = q

\* C11: UnmarshalJSON of data that is neither null nor enclosed in a
\* matching pair of quotes returns a *time.ParseError and makes no call of
\* ParseISO8601Timestamp; properly quoted data is passed to it with its
\* first and last byte stripped.
C11_NonStringLiteral ==
    op = "UnmarshalJSON" =>
        /\ (data # <<"n", "u", "l", "l">> /\ ~ProperlyQuoted(data)) =>
            /\ uerr.type = "time.ParseError"
            /\ uerr.value = data
            /\ ret.status = "none"
        /\ ProperlyQuoted(data) =>
            /\ ret.status # "none"
            /\ s = SubSeq(data, 2, Len(data) - 1)

\* the bare number 1 was refused without a call of the parser
C11_Witness ==
    /\ op = "UnmarshalJSON"
    /\ data = <<"1">>
    /\ uerr.type = "time.ParseError"
    /\ ret.status = "none"

----------------------------------------------------------------------------
(* More properties of a direct call                                        *)

\* the year the first matching pattern captured, as atoip reads it
YearField(str) ==
    LET first == CHOOSE i \in Matching(str) : \A j \in Matching(str) : i <= j
    IN  atoip(FindStringSubmatch(iso8601Variants[first], str)[2]).v

\* C12, as stated: every accepted input has a year field from 1 to 9999.
C12_AsStated ==
    (Done /\ ret.status = "ok") => YearField(s) \in 1..9999

\* C12, amended: every accepted input has a year field from 0 to 9999 (the
\* four digits 0000 are admitted); a text with more or fewer year digits, or
\* a signed year, is not accepted.
C12_YearRange ==
    (Done /\ ret.status = "ok") =>
        /\ YearField(s) \in 0..9999
        /\ (tv.kind # "raw" /\ tv.del = 0) => YearField(s) = tv.year

\* "9999-12-31" was accepted with year field 9999
C12_Witness ==
    /\ Done
    /\ tv = [WithDate(BaseVector, <<9999, 12, 31>>) EXCEPT !.kind = "date"]
    /\ ret.status = "ok"
    /\ YearField(s) = 9999
    /\ Year(ret.ts) = 9999

\* the offset text the first matching pattern captured (tzStr); "Z" for a
\* date-only pattern, as the code has it
OffsetField(str) ==
    LET first == CHOOSE i \in Matching(str) : \A j \in Matching(str) : i <= j
        parts == FindStringSubmatch(iso8601Variants[first], str)
    IN  IF Len(parts) > 4 THEN parts[9] ELSE <<"Z">>

\* tzStr[3] and the minute slice the code then takes are inside tzStr
OffsetInBounds(tzStr) ==
    /\ GoIndex(tzStr, 3).ok
    /\ IF GoIndex(tzStr, 3).v = ":" THEN GoSlice(tzStr, 4, 6).ok
       ELSE GoSlice(tzStr, 3, 5).ok

\* C13: a call on an input some pattern matches never aborts and returns a
\* nil error; for every offset text the patterns capture, tzStr[3] and the
\* minute slice are in bounds and atoip reads a non-empty digit string.
C13_TotalOnMatched ==
    (Done /\ Matching(s) # {}) =>
        /\ ret.status # "panic"
        /\ ret.err = NilError
        /\ OffsetField(s) # <<"Z">> =>
            /\ OffsetInBounds(OffsetField(s))
            /\ atoipSlice(GoSlice(OffsetField(s), 1, 3)).ok

----------------------------------------------------------------------------
(* Sequences of calls on one Time value                                    *)

\* C14: in any sequence of calls on one Time value, an UnmarshalJSON that
\* fails because the data is not a quoted literal leaves the value as it was;
\* an UnmarshalJSON of quoted data or an UnmarshalText whose text the parser
\* rejects sets the value to the zero timestamp and returns the parser's
\* error; a call whose text the parser accepts sets the value to the parsed
\* timestamp and returns no error.
C14_StateAfterCalls ==
    [][/\ (/\ op' = "UnmarshalJSON"
           /\ data' # <<"n", "u", "l", "l">>
           /\ ~ProperlyQuoted(data'))
          => (t' = t /\ uerr' # NilError /\ ret'.status = "none")
       /\ (op' \in {"UnmarshalJSON", "UnmarshalText"} /\ ret'.status = "error")
          => (t' = ZeroTime /\ uerr' = ret'.err /\ uerr' # NilError)
       /\ (op' \in {"UnmarshalJSON", "UnmarshalText"} /\ ret'.status = "ok")
          => (t' = ret'.ts /\ uerr' = NilError)]_vars

\* UnmarshalText was handed a text the parser rejects: the value is the zero
\* timestamp and the error is the parser's
C14_Witness ==
    /\ op = "UnmarshalText"
    /\ data = Build([BaseVector EXCEPT !.del = 8])
    /\ ret.status = "error"
    /\ t = ZeroTime
    /\ uerr = ret.err
    /\ uerr # NilError

====
